---- MODULE Spec2Model ----
(***************************************************************************)
(* The storage engine of cmd/server/server.go (type ObjectStorage) over a  *)
(* model of the two directory trees it keeps on disk:                      *)
(*    data      <dataDir>/<bucket>/<key>            payload files          *)
(*    meta      <metadataDir>/<bucket>.json         bucket records         *)
(*              <metadataDir>/<bucket>/<key>.json   object records         *)
(* A path is the sequence of its components below the tree's root.  Every  *)
(* engine call is run by a process (one per inbound request) as the        *)
(* sequence of file-system calls its code makes; each file-system call is  *)
(* one atomic step.  A call fails as the state of the trees makes it fail  *)
(* (ENOENT, ENOTDIR, EISDIR, ENOTEMPTY); the calls that create or write    *)
(* (MkdirAll, CreateTemp, the copy, Rename, WriteFile) may also fail for   *)
(* a reason outside the trees (EIO).  Object keys are not of the form      *)
(* upload-*.tmp, the names of the temporary files.                         *)
(* The API layer (type StorageServer and main) is the routing of a request *)
(* to a handler, the handler's engine call and the response it writes.     *)
(***************************************************************************)
EXTENDS Integers, Sequences, FiniteSets, TLC

\* ---------------------------------------------------------------- bounds
\* Longest payload a request supplies.
MaxLen == 2
\* Number of engine calls made in one behaviour: by one worker, and by
\* concurrent workers.
MaxCalls == 4
MaxConcurrentCalls == 3
\* Requests to the API layer in a run.
MaxApiCalls == 3

\* ---------------------------------------------------------------- inputs
Procs == {"p1", "p2"}
Buckets == {"docs", "photos"}
\* Object keys: a plain key, the key that is its name plus ".json", and a key
\* nested below it.
Keys == {<<"a">>, <<"a.json">>, <<"a", "x">>}
\* Payloads: byte i of a payload is i, so that the payloads differ in length
\* and content and the shorter ones are the partial writes of the longer.
Payloads == {[i \in 1..n |-> i] : n \in 1..MaxLen}
\* Names os.CreateTemp may draw for the pattern "upload-*.tmp".
\* The keys of the requests to the API layer.
ApiKeys == {<<"a">>, <<"not found">>, <<"not found", "x">>}
TempNames == {"upload-1.tmp", "upload-2.tmp"}
\* Lexical order of the file names that occur (os.ReadDir and filepath.Walk
\* return the entries of a directory sorted by name).
NameOrder == <<"a", "a.json", "docs", "not found", "photos", "upload-1.tmp", "upload-2.tmp", "x">>
DefaultContentType == "application/octet-stream"

\* ----------------------------------------------------------- file system
DirNode == [kind |-> "dir"]
FileNode(bytes) == [kind |-> "file", bytes |-> bytes]

Dir(path) == SubSeq(path, 1, Len(path) - 1)
Base(path) == path[Len(path)]
Exists(fs, path) == path \in DOMAIN fs
IsDir(fs, path) == Exists(fs, path) /\ fs[path].kind = "dir"
IsFile(fs, path) == Exists(fs, path) /\ fs[path].kind = "file"
Prefixes(path) == {SubSeq(path, 1, n) : n \in 0..Len(path)}
ProperPrefixes(path) == Prefixes(path) \ {path}
Children(fs, dir) == {p \in DOMAIN fs : Len(p) = Len(dir) + 1 /\ Dir(p) = dir}
Without(fs, path) == [p \in DOMAIN fs \ {path} |-> fs[p]]
With(fs, path, node) == [p \in DOMAIN fs \cup {path} |-> IF p = path THEN node ELSE fs[p]]

\* The error of resolving path, "" when it resolves.
Lookup(fs, path) ==
    IF \E q \in ProperPrefixes(path) : IsFile(fs, q) THEN "ENOTDIR"
    ELSE IF Exists(fs, path) THEN ""
    ELSE "ENOENT"

\* os.MkdirAll: every missing directory of path is made; fails when a
\* component is a file.
MkdirAllFs(fs, path) ==
    IF \E q \in Prefixes(path) : IsFile(fs, q)
    THEN [err |-> "ENOTDIR", fs |-> fs]
    ELSE [err |-> "",
          fs |-> [p \in DOMAIN fs \cup Prefixes(path) |->
                    IF p \in DOMAIN fs THEN fs[p] ELSE DirNode]]

\* os.Remove: removes a file or an empty directory.
RemoveFs(fs, path) ==
    IF Lookup(fs, path) # "" THEN [err |-> Lookup(fs, path), fs |-> fs]
    ELSE IF IsDir(fs, path) /\ Children(fs, path) # {}
    THEN [err |-> "ENOTEMPTY", fs |-> fs]
    ELSE [err |-> "", fs |-> Without(fs, path)]

\* A rename that replaces a directory at the new path as it would a file.
RenameFsOntoDirectory(fs, old, new) ==
    IF Lookup(fs, old) # "" THEN [err |-> Lookup(fs, old), fs |-> fs]
    ELSE IF Lookup(fs, Dir(new)) # "" THEN [err |-> Lookup(fs, Dir(new)), fs |-> fs]
    ELSE [err |-> "", fs |-> With(Without(fs, old), new, fs[old])]

\* os.Rename of a file: replaces a file at the new path in one step; fails
\* when the new path is a directory.
RenameFs(fs, old, new) ==
    IF Lookup(fs, old) # "" THEN [err |-> Lookup(fs, old), fs |-> fs]
    ELSE IF Lookup(fs, Dir(new)) # "" THEN [err |-> Lookup(fs, Dir(new)), fs |-> fs]
    ELSE IF IsDir(fs, new) THEN [err |-> "EISDIR", fs |-> fs]
    ELSE [err |-> "", fs |-> With(Without(fs, old), new, fs[old])]

\* os.IsNotExist
IsNotExist(err) == err = "ENOENT"

\* A payload path that leaves the bucket out: every bucket's objects in one
\* directory.
SharedObjectPath(bucketName, objectKey) == <<"photos">> \o objectKey
\* filepath.Join(storage.dataDir, bucketName, objectKey), below dataDir.
ObjectPath(bucketName, objectKey) == <<bucketName>> \o objectKey
\* objectKey + ".json"
AddJson(objectKey) == [objectKey EXCEPT ![Len(objectKey)] = @ \o ".json"]
\* filepath.Join(storage.metadataDir, bucketName, key+".json"), below metadataDir.
ObjectMetadataPath(bucketName, objectKey) == <<bucketName>> \o AddJson(objectKey)
\* filepath.Join(storage.metadataDir, bucketName+".json"), below metadataDir.
BucketMetadataPath(bucketName) == <<bucketName \o ".json">>

\* The two roots, as NewObjectStorage("./storage") joins them.
DataDir == "storage/data"
MetadataDir == "storage/metadata"
\* filepath.Join of the components of a path.
RECURSIVE JoinNames(_)
JoinNames(path) ==
    IF Len(path) = 1 THEN path[1] ELSE path[1] \o "/" \o JoinNames(Tail(path))
\* The text of an *os.PathError: the operation, the path and the cause.
PathError(op, root, path, errno) ==
    op \o " " \o root \o "/" \o JoinNames(path) \o ": " \o
    (CASE errno = "ENOENT" -> "no such file or directory"
       [] errno = "ENOTDIR" -> "not a directory"
       [] OTHER -> errno)

\* ------------------------------------------------------------- checksum
\* md5.New(): nothing absorbed yet; hash.Write absorbs a chunk; hash.Sum
\* followed by hex.EncodeToString names the digest of what was absorbed.
NewHash == <<>>
HashWrite(h, chunk) == h \o chunk
HexSum(h) == <<"md5">> \o h
Md5Hex(bytes) == HexSum(HashWrite(NewHash, bytes))

\* ------------------------------------------------------- metadata codec
\* json.MarshalIndent of an ObjectMetadata / a Bucket: the record's text,
\* as the sequence of its field names and values.
MarshalObject(m) ==
    <<"key", m.Key, "size", m.Size, "content_type", m.ContentType,
      "etag", m.ETag, "last_modified", m.LastModified>>
MarshalBucket(b) == <<"name", b.Name, "created", b.Created>>
\* The text of a record file that was opened for writing and not written yet.
Truncated == <<>>
\* The text of a record file in which a record was written over the start of
\* a longer text: the record, then what is left of the longer text.
Torn(text) == Append(text, "tail")
\* os.WriteFile's write, at offset 0 of a file holding old: the texts that
\* can result.  Written into an empty file the text stands alone; written
\* over a text another writer put there since the file was opened, it
\* stands alone when it is at least as long and is followed by the other's
\* tail when it is shorter (the length of a record varies with the digits of
\* its size and timestamp).
WriteOver(old, text) == IF old = Truncated THEN {text} ELSE {text, Torn(text)}

\* json.Unmarshal into an ObjectMetadata: fields found by name, a missing
\* field is left at its zero value; an empty text is an error, and so is a
\* text with anything after the record.
Field(text, name, zero) ==
    IF \E i \in 1..Len(text) : i % 2 = 1 /\ text[i] = name
    THEN text[(CHOOSE i \in 1..Len(text) : i % 2 = 1 /\ text[i] = name) + 1]
    ELSE zero
UnmarshalObject(text) ==
    IF text = Truncated THEN [err |-> "unexpected end of JSON input"]
    ELSE IF Len(text) % 2 = 1 THEN [err |-> "invalid character after top-level value"]
    ELSE [err |-> "",
          val |-> [Key |-> Field(text, "key", <<>>),
                   Size |-> Field(text, "size", 0),
                   ContentType |-> Field(text, "content_type", ""),
                   ETag |-> Field(text, "etag", <<>>),
                   LastModified |-> Field(text, "last_modified", 0)]]
UnmarshalBucket(text) ==
    IF text = Truncated THEN [err |-> "unexpected end of JSON input"]
    ELSE IF Len(text) % 2 = 1 THEN [err |-> "invalid character after top-level value"]
    ELSE [err |-> "",
          val |-> [Name |-> Field(text, "name", ""),
                   Created |-> Field(text, "created", 0)]]

\* ------------------------------------------------------------------ state
VARIABLES
    data,   \* the tree below dataDir: path -> DirNode or FileNode(bytes)
    meta,   \* the record files below metadataDir: path -> text
    now,    \* the wall clock
    calls,  \* the number of engine calls still to arrive
    faults, \* whether a call has failed for a reason outside the trees
    proc,   \* each request's engine call: its arguments, position and locals
    http,   \* each worker's HTTP request and the response to it
    hist    \* per bucket and key: what the completed calls on it established

vars == <<data, meta, now, calls, faults, proc, http, hist>>

\* What hist records of a key.  "put": the last call on the key was a
\* PutObject of body that returned success with no other put or delete of
\* the key running beside it; "deleted": likewise a successful DeleteObject
\* after such a put; "absent": no put or delete of the key was ever
\* started; "unknown": anything else.
Absent == [st |-> "absent"]
Unknown == [st |-> "unknown"]
WasPut(body) == [st |-> "put", body |-> body]
Deleted == [st |-> "deleted"]

NoNode == [kind |-> "none"]
\* A worker that has not served a request yet.
NoRequest ==
    [state |-> "none", method |-> "", path |-> <<>>, handler |-> "",
     status |-> 0, err |-> "", headers |-> <<>>, body |-> NoNode]
Idle ==
    [op |-> "idle", pc |-> "idle", bucket |-> "", key |-> <<>>, body |-> <<>>,
     tmp |-> <<>>, size |-> 0, hash |-> NewHash, file |-> NoNode, names |-> <<>>,
     time |-> 0, err |-> "", out |-> <<>>, src |-> <<>>,
     quiet |-> FALSE, prior |-> Unknown]

Running(q) == proc[q].pc \notin {"idle", "done"}
Writes(q) == proc[q].op \in {"PutObject", "DeleteObject"}
\* A request arrives at an idle worker.
Arrives(p) ==
    /\ proc[p].op = "idle"
    /\ calls > 0
    /\ calls' = calls - 1

\* A put or delete of (b, k) starts: the other calls on that key, and the
\* listings of that bucket, running or returned, are no longer undisturbed.
Disturb(p, b, k, rec) ==
    [q \in Procs |->
        IF q = p THEN rec
        ELSE IF proc[q].op # "idle" /\ proc[q].bucket = b
                /\ (proc[q].key = k \/ proc[q].op = "ListObjects")
        THEN [proc[q] EXCEPT !.quiet = FALSE]
        ELSE proc[q]]
NoWriterOn(p, b, k) ==
    \A q \in Procs \ {p} : ~(Running(q) /\ Writes(q) /\ proc[q].bucket = b /\ proc[q].key = k)
NoWriterIn(p, b) ==
    \A q \in Procs \ {p} : ~(Running(q) /\ Writes(q) /\ proc[q].bucket = b)

\* The call returns err: its locals are gone, its arguments and result stay
\* for the caller (and, of a listing, the names it read).
Finish(rec, err) ==
    [rec EXCEPT !.pc = "done", !.err = err, !.tmp = <<>>, !.size = 0,
                !.hash = NewHash, !.names = <<>>, !.time = 0]

\* NewObjectStorage: both roots exist and are empty.
NewObjectStorage(n) ==
    /\ data = (<<>> :> DirNode)
    /\ meta = <<>>
    /\ now = 1
    /\ calls = n
    /\ faults = FALSE
    /\ proc = [p \in Procs |-> Idle]
    /\ http = [p \in Procs |-> NoRequest]
    /\ hist = [b \in Buckets |-> [k \in Keys \cup ApiKeys |-> Absent]]

Init == NewObjectStorage(MaxCalls)

\* ------------------------------------------------------------ CreateBucket
\* storage.MkdirAll(bucketDir)
CreateBucketMkdir(p, bucketName) ==
    /\ Arrives(p)
    /\ \E fail \in BOOLEAN :
        /\ faults' = (faults \/ fail)
        /\ LET r == IF fail THEN [err |-> "EIO", fs |-> data]
                    ELSE MkdirAllFs(data, <<bucketName>>)
               rec == [Idle EXCEPT !.op = "CreateBucket", !.bucket = bucketName]
           IN /\ data' = r.fs
              /\ proc' = [proc EXCEPT ![p] =
                    IF r.err # "" THEN Finish(rec, "failed to create Bucket")
                    ELSE [rec EXCEPT !.pc = "saveMeta"]]
    /\ UNCHANGED <<meta, now, hist, http>>

\* Bucket{Name, Created: time.Now()}; saveBucketMetaData up to the opening of
\* the record file by os.WriteFile (O_CREATE|O_TRUNC).
CreateBucketOpen(p) ==
    /\ proc[p].op = "CreateBucket" /\ proc[p].pc = "saveMeta"
    /\ now' = now + 1
    /\ \E fail \in BOOLEAN :
        /\ faults' = (faults \/ fail)
        /\ IF fail
           THEN /\ proc' = [proc EXCEPT ![p] = Finish([@ EXCEPT !.time = now], "open")]
                /\ meta' = meta
           ELSE /\ proc' = [proc EXCEPT ![p] = [@ EXCEPT !.pc = "writeMeta", !.time = now]]
                /\ meta' = With(meta, BucketMetadataPath(proc[p].bucket), Truncated)
    /\ UNCHANGED <<data, hist, calls, http>>

\* os.WriteFile: the write of the marshalled record and the return.
CreateBucketWrite(p) ==
    /\ proc[p].op = "CreateBucket" /\ proc[p].pc = "writeMeta"
    /\ \E fail \in BOOLEAN :
        /\ faults' = (faults \/ fail)
        /\ LET bucket == [Name |-> proc[p].bucket, Created |-> proc[p].time]
           IN IF fail
              THEN /\ proc' = [proc EXCEPT ![p] = Finish(@, "write")]
                   /\ meta' = meta
              ELSE /\ proc' = [proc EXCEPT ![p] = Finish(@, "")]
                   /\ \E text \in WriteOver(meta[BucketMetadataPath(proc[p].bucket)],
                                           MarshalBucket(bucket)) :
                         meta' = With(meta, BucketMetadataPath(proc[p].bucket), text)
    /\ UNCHANGED <<data, now, hist, calls, http>>

\* --------------------------------------------------------------- PutObject
\* The call arrives; storage.MkdirAll(objectDir).
PutObjectMkdir(p, bucketName, objectKey, body) ==
    /\ Arrives(p)
    /\ \E fail \in BOOLEAN :
        /\ faults' = (faults \/ fail)
        /\ LET r == IF fail THEN [err |-> "EIO", fs |-> data]
                    ELSE MkdirAllFs(data, Dir(ObjectPath(bucketName, objectKey)))
               rec == [Idle EXCEPT !.op = "PutObject", !.bucket = bucketName,
                                   !.key = objectKey, !.body = body,
                                   !.quiet = NoWriterOn(p, bucketName, objectKey),
                                   !.prior = hist[bucketName][objectKey]]
           IN /\ data' = r.fs
              /\ proc' = Disturb(p, bucketName, objectKey,
                    IF r.err # "" THEN Finish(rec, "failed to create object directory")
                    ELSE [rec EXCEPT !.pc = "createTemp"])
    /\ hist' = [hist EXCEPT ![bucketName][objectKey] = Unknown]
    /\ UNCHANGED <<meta, now, http>>

\* A put that opens the object's own path for writing instead of a temporary
\* file beside it.
PutObjectCreateInPlace(p) ==
    /\ proc[p].op = "PutObject" /\ proc[p].pc = "createTemp"
    /\ LET objectPath == ObjectPath(proc[p].bucket, proc[p].key)
       IN IF Lookup(data, Dir(objectPath)) = "" /\ ~IsDir(data, objectPath)
          THEN /\ data' = With(data, objectPath, FileNode(<<>>))
               /\ proc' = [proc EXCEPT ![p] =
                     [@ EXCEPT !.pc = "copy", !.tmp = objectPath,
                               !.hash = NewHash, !.size = 0]]
          ELSE /\ data' = data
               /\ proc' = [proc EXCEPT ![p] = Finish(@, "failed to create temp file")]
    /\ UNCHANGED <<meta, now, hist, calls, faults, http>>

\* A temporary file under one fixed name, opened without O_EXCL.
PutObjectCreateSharedTemp(p) ==
    /\ proc[p].op = "PutObject" /\ proc[p].pc = "createTemp"
    /\ LET objectDir == Dir(ObjectPath(proc[p].bucket, proc[p].key))
           tempPath == Append(objectDir, "upload-1.tmp")
       IN \/ /\ Lookup(data, objectDir) = ""
             /\ data' = With(data, tempPath, FileNode(<<>>))
             /\ proc' = [proc EXCEPT ![p] =
                   [@ EXCEPT !.pc = "copy", !.tmp = tempPath,
                             !.hash = NewHash, !.size = 0]]
             /\ faults' = faults
          \/ /\ data' = data
             /\ faults' = (faults \/ Lookup(data, objectDir) = "")
             /\ proc' = [proc EXCEPT ![p] =
                   Finish(@, "failed to create temp file")]
    /\ UNCHANGED <<meta, now, hist, calls, http>>

\* os.CreateTemp(objectDir, "upload-*.tmp"): a new empty file under a name
\* not in use in objectDir (O_EXCL); md5.New().
PutObjectCreateTemp(p) ==
    /\ proc[p].op = "PutObject" /\ proc[p].pc = "createTemp"
    /\ LET objectDir == Dir(ObjectPath(proc[p].bucket, proc[p].key))
       IN \/ /\ Lookup(data, objectDir) = ""
             /\ \E name \in TempNames :
                 /\ ~Exists(data, Append(objectDir, name))
                 /\ data' = With(data, Append(objectDir, name), FileNode(<<>>))
                 /\ proc' = [proc EXCEPT ![p] =
                       [@ EXCEPT !.pc = "copy", !.tmp = Append(objectDir, name),
                                 !.hash = NewHash, !.size = 0]]
                 /\ faults' = faults
          \/ /\ data' = data
             /\ faults' = (faults \/ Lookup(data, objectDir) = "")
             /\ proc' = [proc EXCEPT ![p] =
                   Finish(@, "failed to create temp file")]
    /\ UNCHANGED <<meta, now, hist, calls, http>>

\* A copy that leaves the temporary file behind when it fails.
PutObjectCopyLeaky(p) ==
    /\ proc[p].op = "PutObject" /\ proc[p].pc = "copy"
    /\ LET rec == proc[p]
           chunk == <<rec.body[rec.size + 1]>>
       IN \/ /\ data' = With(data, rec.tmp, FileNode(data[rec.tmp].bytes \o chunk))
             /\ proc' = [proc EXCEPT ![p] =
                   [@ EXCEPT !.hash = HashWrite(rec.hash, chunk),
                             !.size = rec.size + 1,
                             !.pc = IF rec.size + 1 = Len(rec.body) THEN "rename" ELSE "copy"]]
             /\ faults' = faults
          \/ /\ data' = data
             /\ faults' = TRUE
             /\ proc' = [proc EXCEPT ![p] = Finish(@, "failed to write object data")]
    /\ UNCHANGED <<meta, now, hist, calls, http>>

\* io.Copy(io.MultiWriter(tempFile, hash), data): the next chunk of the body
\* goes to the temporary file and to the hash; a failed read or write ends
\* the copy, and the temporary file is removed.
PutObjectCopy(p) ==
    /\ proc[p].op = "PutObject" /\ proc[p].pc = "copy"
    /\ LET rec == proc[p]
           chunk == <<rec.body[rec.size + 1]>>
       IN \/ /\ data' = With(data, rec.tmp, FileNode(data[rec.tmp].bytes \o chunk))
             /\ proc' = [proc EXCEPT ![p] =
                   [@ EXCEPT !.hash = HashWrite(rec.hash, chunk),
                             !.size = rec.size + 1,
                             !.pc = IF rec.size + 1 = Len(rec.body) THEN "rename" ELSE "copy"]]
             /\ faults' = faults
          \/ /\ data' = RemoveFs(data, rec.tmp).fs
             /\ faults' = TRUE
             /\ proc' = [proc EXCEPT ![p] = Finish(@, "failed to write object data")]
    /\ UNCHANGED <<meta, now, hist, calls, http>>

\* A PutObject that goes on to the record before its payload is renamed.
PutObjectRenameDeferred(p) ==
    /\ proc[p].op = "PutObject" /\ proc[p].pc = "rename"
    /\ proc' = [proc EXCEPT ![p] = [@ EXCEPT !.pc = "saveMeta"]]
    /\ UNCHANGED <<data, meta, now, faults, hist, calls, http>>

\* tempFile.Close(); storage.Rename(tempFile.Name(), objectPath); on an
\* error the temporary file is removed.
PutObjectRename(p) ==
    /\ proc[p].op = "PutObject" /\ proc[p].pc = "rename"
    /\ \E fail \in BOOLEAN :
        /\ faults' = (faults \/ fail)
        /\ LET rec == proc[p]
               r == IF fail THEN [err |-> "EIO", fs |-> data]
                    ELSE RenameFs(data, rec.tmp, ObjectPath(rec.bucket, rec.key))
           IN IF r.err # ""
              THEN /\ data' = RemoveFs(data, rec.tmp).fs
                   /\ proc' = [proc EXCEPT ![p] =
                         Finish(@, "failed to finalize object")]
              ELSE /\ data' = r.fs
                   /\ proc' = [proc EXCEPT ![p] = [@ EXCEPT !.pc = "saveMeta"]]
    /\ UNCHANGED <<meta, now, hist, calls, http>>

\* The ObjectMetadata of the call, as PutObject builds it.
PutMetadata(rec, time) ==
    [Key |-> rec.key, Size |-> rec.size, ContentType |-> DefaultContentType,
     ETag |-> HexSum(rec.hash), LastModified |-> time]

\* metadata with LastModified: time.Now(); saveObjectMetaData up to the
\* opening of the record file by os.WriteFile (O_CREATE|O_TRUNC).
PutObjectSaveOpen(p) ==
    /\ proc[p].op = "PutObject" /\ proc[p].pc = "saveMeta"
    /\ now' = now + 1
    /\ \E fail \in BOOLEAN :
        /\ faults' = (faults \/ fail)
        /\ IF fail
           THEN /\ proc' = [proc EXCEPT ![p] = Finish([@ EXCEPT !.time = now], "failed to save metadata")]
                /\ meta' = meta
           ELSE /\ proc' = [proc EXCEPT ![p] = [@ EXCEPT !.pc = "writeMeta", !.time = now]]
                /\ meta' = With(meta, ObjectMetadataPath(proc[p].bucket, proc[p].key), Truncated)
    /\ UNCHANGED <<data, hist, calls, http>>

\* os.WriteFile: the write of the marshalled record; PutObject returns.
PutObjectSaveWrite(p) ==
    /\ proc[p].op = "PutObject" /\ proc[p].pc = "writeMeta"
    /\ \E fail \in BOOLEAN :
        /\ faults' = (faults \/ fail)
        /\ LET rec == proc[p]
               metadata == PutMetadata(rec, rec.time)
           IN IF fail
              THEN /\ proc' = [proc EXCEPT ![p] = Finish(@, "failed to save metadata")]
                   /\ meta' = meta
                   /\ hist' = hist
              ELSE /\ proc' = [proc EXCEPT ![p] = [Finish(@, "") EXCEPT !.out = <<metadata>>]]
                   /\ \E text \in WriteOver(meta[ObjectMetadataPath(rec.bucket, rec.key)],
                                           MarshalObject(metadata)) :
                         meta' = With(meta, ObjectMetadataPath(rec.bucket, rec.key), text)
                   /\ hist' = IF rec.quiet
                              THEN [hist EXCEPT ![rec.bucket][rec.key] = WasPut(rec.body)]
                              ELSE hist
    /\ UNCHANGED <<data, now, calls, http>>

\* -------------------------------------------------------- loadObjectMetadata
\* storage.ReadFile(metadataPath) and json.Unmarshal.
LoadObjectMetadata(mt, bucketName, objectKey) ==
    LET metadataPath == ObjectMetadataPath(bucketName, objectKey)
    IN IF ~Exists(mt, metadataPath) THEN [err |-> "ENOENT"]
       ELSE UnmarshalObject(mt[metadataPath])

\* --------------------------------------------------------------- GetObject
\* fmt.Errorf("failed to open object: %w", err), err from os.Open.
OpenError(bucketName, objectKey, errno) ==
    "failed to open object: "
        \o PathError("open", DataDir, ObjectPath(bucketName, objectKey), errno)
\* fmt.Errorf("failed to load metadata: %w", err), err from os.ReadFile or
\* from json.Unmarshal.
LoadError(bucketName, objectKey, err) ==
    "failed to load metadata: "
        \o (IF err = "ENOENT"
            THEN PathError("open", MetadataDir, ObjectMetadataPath(bucketName, objectKey), err)
            ELSE err)
\* The call arrives; storage.Stat(objectPath).
GetObjectStat(p, bucketName, objectKey) ==
    /\ Arrives(p)
    /\ LET err == Lookup(data, ObjectPath(bucketName, objectKey))
           rec == [Idle EXCEPT !.op = "GetObject", !.bucket = bucketName,
                               !.key = objectKey,
                               !.quiet = NoWriterOn(p, bucketName, objectKey)]
       IN proc' = [proc EXCEPT ![p] =
              IF IsNotExist(err) THEN Finish(rec, "object not found")
              ELSE [rec EXCEPT !.pc = "open"]]
    /\ UNCHANGED <<data, meta, now, hist, faults, http>>

\* storage.Open(objectPath): the handle is on the file as it is now.
GetObjectOpen(p) ==
    /\ proc[p].op = "GetObject" /\ proc[p].pc = "open"
    /\ LET rec == proc[p]
           err == Lookup(data, ObjectPath(rec.bucket, rec.key))
       IN proc' = [proc EXCEPT ![p] =
              IF err # ""
              THEN Finish(@, OpenError(rec.bucket, rec.key, err))
              ELSE [@ EXCEPT !.pc = "loadMeta", !.file = data[ObjectPath(rec.bucket, rec.key)]]]
    /\ UNCHANGED <<data, meta, now, hist, calls, faults, http>>

\* storage.loadObjectMetadata; GetObject returns the handle and the record.
GetObjectLoad(p) ==
    /\ proc[p].op = "GetObject" /\ proc[p].pc = "loadMeta"
    /\ LET rec == proc[p]
           m == LoadObjectMetadata(meta, rec.bucket, rec.key)
       IN proc' = [proc EXCEPT ![p] =
              IF m.err # ""
              THEN [Finish(@, LoadError(rec.bucket, rec.key, m.err)) EXCEPT !.file = NoNode]
              ELSE [Finish(@, "") EXCEPT !.out = <<m.val>>]]
    /\ UNCHANGED <<data, meta, now, hist, calls, faults, http>>

\* ------------------------------------------------------------ DeleteObject
\* The call arrives; storage.Remove(objectPath).
DeleteObjectPayload(p, bucketName, objectKey) ==
    /\ Arrives(p)
    /\ LET r == RemoveFs(data, ObjectPath(bucketName, objectKey))
           rec == [Idle EXCEPT !.op = "DeleteObject", !.bucket = bucketName,
                                !.key = objectKey,
                                !.quiet = NoWriterOn(p, bucketName, objectKey),
                                !.prior = hist[bucketName][objectKey]]
        IN /\ data' = r.fs
           /\ proc' = Disturb(p, bucketName, objectKey,
                 IF r.err # "" /\ ~IsNotExist(r.err)
                 THEN Finish(rec, "failed to delete object")
                 ELSE [rec EXCEPT !.pc = "removeMeta"])
    /\ hist' = [hist EXCEPT ![bucketName][objectKey] = Unknown]
    /\ UNCHANGED <<meta, now, faults, http>>

\* metadataPath := filepath.Join(storage.dataDir, bucketName, objectKey+".json")
DeleteMetadataPath(bucketName, objectKey) == ObjectPath(bucketName, AddJson(objectKey))

\* storage.Remove(metadataPath); DeleteObject returns.
DeleteObjectMetadata(p) ==
    /\ proc[p].op = "DeleteObject" /\ proc[p].pc = "removeMeta"
    /\ LET rec == proc[p]
           r == RemoveFs(data, DeleteMetadataPath(rec.bucket, rec.key))
           ok == r.err = "" \/ IsNotExist(r.err)
       IN /\ data' = r.fs
           /\ proc' = [proc EXCEPT ![p] =
                 IF ok THEN Finish(@, "")
                 ELSE Finish(@, "failed to delete metadata")]
           /\ hist' = IF ok /\ rec.quiet /\ rec.prior.st \in {"put", "deleted"}
                      THEN [hist EXCEPT ![rec.bucket][rec.key] = Deleted]
                      ELSE hist
    /\ UNCHANGED <<meta, now, calls, faults, http>>

\* ------------------------------------------------------------- ListBuckets
SortedNames(S) == SelectSeq(NameOrder, LAMBDA n : n \in S)
\* The names in a directory, sorted (os.ReadDir, filepath.Walk's readDirNames).
ReadDirNames(fs, dir) == SortedNames({Base(q) : q \in Children(fs, dir)})

\* storage.loadBucketMetadata: a record that cannot be read yields a bucket
\* created now and no error; a record that cannot be parsed yields the error.
LoadBucketMetadata(mt, bucketName, time) ==
    LET metadataPath == BucketMetadataPath(bucketName)
    IN IF ~Exists(mt, metadataPath)
       THEN [err |-> "", val |-> [Name |-> bucketName, Created |-> time]]
       ELSE UnmarshalBucket(mt[metadataPath])

\* The loop of ListBuckets over the entries read.
RECURSIVE BucketsOf(_, _, _, _)
BucketsOf(mt, entries, time, buckets) ==
    IF entries = <<>> THEN buckets
    ELSE LET entry == Head(entries)
             b == LoadBucketMetadata(mt, entry.name, time)
         IN BucketsOf(mt, Tail(entries), time,
                      IF entry.dir /\ b.err = "" THEN Append(buckets, b.val) ELSE buckets)

\* The call arrives; storage.ReadDir(storage.dataDir).
ListBucketsReadDir(p) ==
    /\ Arrives(p)
    /\ LET names == ReadDirNames(data, <<>>)
           rec == [Idle EXCEPT !.op = "ListBuckets"]
       IN proc' = [proc EXCEPT ![p] =
              IF Lookup(data, <<>>) # "" THEN Finish(rec, "failed to read data directory")
              ELSE [rec EXCEPT !.pc = "load",
                               !.names = [i \in 1..Len(names) |->
                                            [name |-> names[i], dir |-> IsDir(data, <<names[i]>>)]]]]
    /\ UNCHANGED <<data, meta, now, hist, faults, http>>

\* The loop over the entries; ListBuckets returns.
ListBucketsLoad(p) ==
    /\ proc[p].op = "ListBuckets" /\ proc[p].pc = "load"
    /\ proc' = [proc EXCEPT ![p] =
          [Finish(@, "") EXCEPT !.out = BucketsOf(meta, proc[p].names, now, <<>>)]]
    /\ UNCHANGED <<data, meta, now, hist, calls, faults, http>>

\* ------------------------------------------------------------- ListObjects
\* filepath.Walk below a path whose Lstat succeeded, with the function
\* ListObjects passes: a file is resolved to its record and appended, or
\* skipped when the record cannot be loaded; a directory is descended into,
\* its names in sorted order; a name whose Lstat fails ends the walk with
\* that error.  src keeps the path each appended record was resolved from.
RECURSIVE Walk(_, _, _, _, _), WalkNames(_, _, _, _, _, _)
\* A walk that does not descend into directories.
WalkShallow(fs, mt, bucketName, path, acc) ==
    IF IsDir(fs, path) THEN acc
    ELSE LET relPath == SubSeq(path, 2, Len(path))
             m == LoadObjectMetadata(mt, bucketName, relPath)
         IN IF m.err # "" THEN acc
            ELSE [acc EXCEPT !.objects = Append(@, m.val), !.src = Append(@, relPath)]
\* A walk that ends with the error of a record that cannot be loaded.
WalkStrict(fs, mt, bucketName, path, acc) ==
    IF IsDir(fs, path)
    THEN WalkNames(fs, mt, bucketName, path, ReadDirNames(fs, path), acc)
    ELSE LET relPath == SubSeq(path, 2, Len(path))
             m == LoadObjectMetadata(mt, bucketName, relPath)
         IN IF m.err # "" THEN [acc EXCEPT !.err = m.err]
            ELSE [acc EXCEPT !.objects = Append(@, m.val), !.src = Append(@, relPath)]
Walk(fs, mt, bucketName, path, acc) ==
    IF IsDir(fs, path)
    THEN WalkNames(fs, mt, bucketName, path, ReadDirNames(fs, path), acc)
    ELSE LET relPath == SubSeq(path, 2, Len(path))
             m == LoadObjectMetadata(mt, bucketName, relPath)
         IN IF m.err # "" THEN acc
            ELSE [acc EXCEPT !.objects = Append(@, m.val), !.src = Append(@, relPath)]
WalkNames(fs, mt, bucketName, dir, names, acc) ==
    IF names = <<>> THEN acc
    ELSE LET filename == Append(dir, Head(names))
         IN IF Lookup(fs, filename) # ""
            THEN [acc EXCEPT !.err = Lookup(fs, filename)]
            ELSE LET r == Walk(fs, mt, bucketName, filename, acc)
                 IN IF r.err # "" THEN r
                    ELSE WalkNames(fs, mt, bucketName, dir, Tail(names), r)
NoObjects == [err |-> "", objects |-> <<>>, src |-> <<>>]

\* A listing that takes a bucket directory that is not there for an empty
\* one.
ListObjectsReadDirLenient(p, bucketName) ==
    /\ Arrives(p)
    /\ LET err == Lookup(data, <<bucketName>>)
           rec == [Idle EXCEPT !.op = "ListObjects", !.bucket = bucketName,
                               !.quiet = NoWriterIn(p, bucketName)]
       IN proc' = [proc EXCEPT ![p] =
              IF err # "" THEN Finish(rec, "")
              ELSE [rec EXCEPT !.pc = "walk", !.names = ReadDirNames(data, <<bucketName>>)]]
    /\ UNCHANGED <<data, meta, now, hist, faults, http>>

\* The call arrives; filepath.Walk's Lstat of bucketPath and the reading of
\* its names.
ListObjectsReadDir(p, bucketName) ==
    /\ Arrives(p)
    /\ LET err == Lookup(data, <<bucketName>>)
           rec == [Idle EXCEPT !.op = "ListObjects", !.bucket = bucketName,
                               !.quiet = NoWriterIn(p, bucketName)]
       IN proc' = [proc EXCEPT ![p] =
              IF err # "" THEN Finish(rec, err)
              ELSE [rec EXCEPT !.pc = "walk", !.names = ReadDirNames(data, <<bucketName>>)]]
    /\ UNCHANGED <<data, meta, now, hist, faults, http>>

\* The walk over the names read; ListObjects returns the objects and the
\* walk's error.
ListObjectsWalk(p) ==
    /\ proc[p].op = "ListObjects" /\ proc[p].pc = "walk"
    /\ LET r == WalkNames(data, meta, proc[p].bucket, <<proc[p].bucket>>, proc[p].names, NoObjects)
       IN proc' = [proc EXCEPT ![p] =
             [Finish(@, r.err) EXCEPT !.out = r.objects, !.src = r.src,
                                      !.names = proc[p].names]]
    /\ UNCHANGED <<data, meta, now, hist, calls, faults, http>>

\* ------------------------------------------------------------------ system
\* The caller takes the result; the request's worker is free again.
Return(p) ==
    /\ proc[p].pc = "done"
    /\ proc' = [proc EXCEPT ![p] = Idle]
    /\ UNCHANGED <<data, meta, now, hist, calls, faults, http>>

\* The bucket calls of one request.
BucketCall(p, B) ==
    \/ \E b \in B : CreateBucketMkdir(p, b)
    \/ CreateBucketOpen(p)
    \/ CreateBucketWrite(p)
    \/ ListBucketsReadDir(p)
    \/ ListBucketsLoad(p)

\* The object calls of one request, on the buckets B and the keys K.
ObjectCall(p, B, K, P) ==
    \/ \E b \in B, k \in K, body \in P : PutObjectMkdir(p, b, k, body)
    \/ PutObjectCreateTemp(p)
    \/ PutObjectCopy(p)
    \/ PutObjectRename(p)
    \/ PutObjectSaveOpen(p)
    \/ PutObjectSaveWrite(p)
    \/ \E b \in B, k \in K : GetObjectStat(p, b, k)
    \/ GetObjectOpen(p)
    \/ GetObjectLoad(p)
    \/ \E b \in B, k \in K : DeleteObjectPayload(p, b, k)
    \/ DeleteObjectMetadata(p)
    \/ \E b \in B : ListObjectsReadDir(p, b)
    \/ ListObjectsWalk(p)

\* One request after the other, on the objects of one bucket.
Next ==
    \/ ObjectCall("p1", {"photos"}, Keys, Payloads)
    \/ Return("p1")

Spec == Init /\ [][Next]_vars

\* One request after the other, on two buckets and one key in each.
BucketsNext ==
    \/ BucketCall("p1", Buckets)
    \/ ObjectCall("p1", Buckets, {<<"a">>}, {<<1>>})
    \/ Return("p1")

SpecBuckets == Init /\ [][BucketsNext]_vars

\* Concurrent requests on the objects of one directory.
ConcurrentKeys == {<<"a">>, <<"a.json">>}
ConcurrentInit == NewObjectStorage(MaxConcurrentCalls)
ConcurrentNext ==
    \E p \in Procs :
        \/ ObjectCall(p, {"photos"}, ConcurrentKeys, Payloads)
        \/ Return(p)

SpecConcurrent == ConcurrentInit /\ [][ConcurrentNext]_vars

\* Concurrent requests on the buckets.
BucketsConcurrentNext ==
    \E p \in Procs :
        \/ BucketCall(p, Buckets)
        \/ Return(p)

SpecBucketsConcurrent == ConcurrentInit /\ [][BucketsConcurrentNext]_vars

\* --------------------------------------------------------------- API layer
\* A request path is the sequence of its segments: /objects/photos/a is
\* <<"objects", "photos", "a">>.  Bucket names are single segments.
Methods == {"GET", "PUT", "DELETE", "HEAD"}
ApiPaths ==
    {<<"buckets">>, <<"buckets", "photos">>, <<"objects", "photos">>}
        \cup {<<"objects", "photos">> \o k : k \in ApiKeys}
ApiPayloads == {<<1>>}

\* strings.Contains
Contains(s, substr) ==
    \E i \in 1..(Len(s) - Len(substr) + 1) : SubSeq(s, i, i + Len(substr) - 1) = substr

\* The patterns main registers and the first lines of the handler the
\* request reaches: the engine call the handler makes, or the status it
\* answers with before making one.
Route(method, path) ==
    LET Answer(h, st) ==
            [handler |-> h, call |-> "", bucket |-> "", key |-> <<>>, status |-> st]
        Call(h, c, b, k) ==
            [handler |-> h, call |-> c, bucket |-> b, key |-> k, status |-> 0]
    IN IF path = <<"buckets">>
       THEN IF method # "PUT" THEN Answer("handleListBuckets", 405)
            ELSE Call("handleListBuckets", "ListBuckets", "", <<>>)
       ELSE IF Len(path) >= 2 /\ path[1] = "buckets"
       THEN IF method # "PUT" THEN Answer("handleCreateBucket", 405)
            ELSE IF JoinNames(Tail(path)) = "" THEN Answer("handleCreateBucket", 400)
            ELSE Call("handleCreateBucket", "CreateBucket", JoinNames(Tail(path)), <<>>)
       ELSE IF Len(path) >= 2 /\ path[1] = "objects"
       THEN IF Len(path) = 2
            THEN IF method # "GET" THEN Answer("handleListObjects", 405)
                 ELSE Call("handleListObjects", "ListObjects", path[2], <<>>)
            ELSE IF method = "PUT"
            THEN Call("handlePutObject", "PutObject", path[2], SubSeq(path, 3, Len(path)))
            ELSE IF method # "GET" THEN Answer("handleGetObject", 405)
            ELSE Call("handleGetObject", "GetObject", path[2], SubSeq(path, 3, Len(path)))
       ELSE IF path = <<"health">> THEN Answer("health", 200)
       ELSE Answer("NotFound", 404)

\* The handler's lines after the engine call: the response to req when the
\* call returned as rec says.
Response(req, rec) ==
    LET answered == [req EXCEPT !.state = "answered", !.err = rec.err]
    IN CASE req.handler = "handleCreateBucket" ->
                [answered EXCEPT !.status = IF rec.err # "" THEN 500 ELSE 201]
         [] req.handler = "handleGetObject" ->
                IF rec.err # ""
                THEN [answered EXCEPT !.status =
                         IF Contains(rec.err, "not found") THEN 404 ELSE 500]
                ELSE [answered EXCEPT !.status = 200, !.headers = rec.out, !.body = rec.file]
         [] req.handler = "handlePutObject" ->
                IF rec.err # "" THEN [answered EXCEPT !.status = 500]
                ELSE [answered EXCEPT !.status = 200, !.headers = rec.out, !.body = rec.out]
         [] OTHER ->
                IF rec.err # "" THEN [answered EXCEPT !.status = 500]
                ELSE [answered EXCEPT !.status = 200, !.body = rec.out]

\* net/http hands a request to the handler its path selects.
Receive(p, method, path) ==
    /\ proc[p].op = "idle" /\ http[p].state # "received"
    /\ calls > 0
    /\ http' = [http EXCEPT ![p] =
          [NoRequest EXCEPT !.state = "received", !.method = method, !.path = path,
                            !.handler = Route(method, path).handler]]
    /\ UNCHANGED <<data, meta, now, calls, faults, proc, hist>>

\* The handler makes its engine call.
Dispatch(p) ==
    /\ http[p].state = "received"
    /\ LET r == Route(http[p].method, http[p].path)
       IN \/ r.call = "CreateBucket" /\ CreateBucketMkdir(p, r.bucket)
          \/ r.call = "ListBuckets" /\ ListBucketsReadDir(p)
          \/ r.call = "PutObject" /\ \E body \in ApiPayloads :
                                        PutObjectMkdir(p, r.bucket, r.key, body)
          \/ r.call = "GetObject" /\ GetObjectStat(p, r.bucket, r.key)
          \/ r.call = "ListObjects" /\ ListObjectsReadDir(p, r.bucket)

\* The handler answers without an engine call.
Reject(p) ==
    /\ http[p].state = "received"
    /\ Route(http[p].method, http[p].path).call = ""
    /\ Arrives(p)
    /\ http' = [http EXCEPT ![p] =
          [@ EXCEPT !.state = "answered",
                    !.status = Route(http[p].method, http[p].path).status]]
    /\ UNCHANGED <<data, meta, now, faults, proc, hist>>

\* The engine call has returned; the handler writes the response.
Respond(p) ==
    /\ proc[p].pc = "done" /\ http[p].state = "received"
    /\ http' = [http EXCEPT ![p] = Response(http[p], proc[p])]
    /\ proc' = [proc EXCEPT ![p] = Idle]
    /\ UNCHANGED <<data, meta, now, calls, faults, hist>>

\* The CLI's stat, after its HEAD request was answered: the error it returns.
CliStat(resp) == IF resp.status # 200 THEN "object not found" ELSE ""
\* The CLI's remove, after its DELETE request was answered.
CliRemove(resp) == IF resp.status # 200 /\ resp.status # 204 THEN "failed to delete object" ELSE ""

\* One request to the server after the other.
ApiInit == NewObjectStorage(MaxApiCalls)
ApiNext ==
    \/ \E method \in Methods, path \in ApiPaths : Receive("p1", method, path)
    \/ Dispatch("p1")
    \/ Reject("p1")
    \/ CreateBucketOpen("p1")
    \/ CreateBucketWrite("p1")
    \/ ListBucketsLoad("p1")
    \/ PutObjectCreateTemp("p1")
    \/ PutObjectCopy("p1")
    \/ PutObjectRename("p1")
    \/ PutObjectSaveOpen("p1")
    \/ PutObjectSaveWrite("p1")
    \/ GetObjectOpen("p1")
    \/ GetObjectLoad("p1")
    \/ ListObjectsWalk("p1")
    \/ Respond("p1")

SpecApi == ApiInit /\ [][ApiNext]_vars

\* ---------------------------------------------------------- observations
Done(p, op) == proc[p].op = op /\ proc[p].pc = "done"
\* The record m describes the payload bytes.
Describes(m, bytes) == m.ETag = Md5Hex(bytes) /\ m.Size = Len(bytes)

\* GetObject run in one piece on the trees fs and mt.
GetNow(fs, mt, bucketName, objectKey) ==
    LET objectPath == ObjectPath(bucketName, objectKey)
        m == LoadObjectMetadata(mt, bucketName, objectKey)
    IN IF IsNotExist(Lookup(fs, objectPath)) THEN [err |-> "object not found"]
       ELSE IF Lookup(fs, objectPath) # ""
       THEN [err |-> OpenError(bucketName, objectKey, Lookup(fs, objectPath))]
       ELSE IF m.err # "" THEN [err |-> LoadError(bucketName, objectKey, m.err)]
       ELSE [err |-> "", file |-> fs[objectPath], metadata |-> m.val]

\* DeleteObject run in one piece on the tree fs.
DeleteNow(fs, bucketName, objectKey) ==
    LET r1 == RemoveFs(fs, ObjectPath(bucketName, objectKey))
        r2 == RemoveFs(r1.fs, DeleteMetadataPath(bucketName, objectKey))
    IN IF r1.err # "" /\ ~IsNotExist(r1.err)
       THEN [err |-> "failed to delete object", fs |-> r1.fs]
       ELSE IF r2.err # "" /\ ~IsNotExist(r2.err)
       THEN [err |-> "failed to delete metadata", fs |-> r2.fs]
       ELSE [err |-> "", fs |-> r2.fs]

\* ------------------------------------------------------------------ claims
\* C1: a successful PutObject(bucket, key, b) followed, with no other put or
\* delete of that key in between, by GetObject(bucket, key) returns the
\* payload b and a record whose checksum is the hash of b and whose size is
\* the length of b.
C1_RoundTrip ==
    \A p \in Procs :
        LET rec == proc[p]
            h == hist[rec.bucket][rec.key]
        IN (Done(p, "GetObject") /\ rec.quiet /\ h.st = "put")
           => /\ rec.err = ""
              /\ rec.file = FileNode(h.body)
              /\ Describes(rec.out[1], h.body)

\* C2: while and after a key is put again, every GetObject of the key that
\* succeeds returns the old payload with the old record or the new payload
\* with the new record.
C2_AtomicReplace ==
    \A p, q \in Procs :
        LET get == proc[p]
            put == proc[q]
        IN (/\ Done(p, "GetObject") /\ get.err = ""
            /\ put.op = "PutObject" /\ put.quiet /\ put.prior.st = "put"
            /\ put.bucket = get.bucket /\ put.key = get.key)
           => \/ get.file = FileNode(put.prior.body) /\ Describes(get.out[1], put.prior.body)
              \/ get.file = FileNode(put.body) /\ Describes(get.out[1], put.body)

\* C3: every payload file at its final path whose key no PutObject is
\* running on has a record whose checksum and size match its bytes.
C3_PayloadHasMatchingRecord ==
    \A b \in Buckets, k \in Keys :
        LET objectPath == ObjectPath(b, k)
            m == LoadObjectMetadata(meta, b, k)
        IN (/\ IsFile(data, objectPath)
            /\ \A q \in Procs : ~(Running(q) /\ proc[q].op = "PutObject"
                                  /\ proc[q].bucket = b /\ proc[q].key = k))
           => m.err = "" /\ Describes(m.val, data[objectPath].bytes)

\* C4: after a PutObject that failed, the key reads as before the call: the
\* prior payload with its record, or nothing.
C4_FailedPutInvisible ==
    \A p \in Procs :
        LET rec == proc[p]
            g == GetNow(data, meta, rec.bucket, rec.key)
        IN (Done(p, "PutObject") /\ rec.err # "" /\ rec.quiet)
           => /\ rec.prior.st = "put" =>
                    /\ g.err = ""
                    /\ g.file = FileNode(rec.prior.body)
                    /\ Describes(g.metadata, rec.prior.body)
              /\ rec.prior.st \in {"absent", "deleted"} => g.err = "object not found"

\* C5: no half-written object is observable.  Whenever the file at a final
\* payload path appears or changes, its new content is the complete payload
\* of a PutObject running on that key; and no ListObjects returns an entry
\* resolved from a temporary file or from a file a PutObject is still
\* writing.
NoPartialPayload ==
    \A b \in Buckets, k \in Keys :
        LET objectPath == ObjectPath(b, k)
        IN (/\ IsFile(data', objectPath)
            /\ ~(IsFile(data, objectPath) /\ data[objectPath] = data'[objectPath]))
           => \E q \in Procs :
                 /\ proc[q].op = "PutObject" /\ Running(q)
                 /\ proc[q].bucket = b /\ proc[q].key = k
                 /\ data'[objectPath] = FileNode(proc[q].body)
NoInFlightListed ==
    \A p \in Procs :
        (proc[p].op = "ListObjects" /\ proc[p].pc = "walk" /\ proc'[p].pc = "done")
        => \A i \in 1..Len(proc'[p].src) :
              LET path == <<proc[p].bucket>> \o proc'[p].src[i]
              IN /\ IsFile(data, path)
                 /\ \A q \in Procs : ~(Running(q) /\ proc[q].op = "PutObject"
                                       /\ proc[q].tmp = path)
NoTemporaryListed ==
    \A p \in Procs :
        Done(p, "ListObjects") =>
            \A i \in 1..Len(proc[p].src) : Base(proc[p].src[i]) \notin TempNames
C5_NoHalfWritten ==
    [][NoPartialPayload /\ NoInFlightListed]_vars /\ []NoTemporaryListed

\* C5 witness: a listing has returned that read the name of the temporary
\* file of a put which had written a part of its payload and has since
\* published the whole of it.
C5_Witness ==
    \E p, q \in Procs :
        /\ Done(p, "ListObjects") /\ proc[p].err = ""
        /\ \E i \in 1..Len(proc[p].names) : proc[p].names[i] \in TempNames
        /\ proc[q].op = "PutObject" /\ proc[q].pc = "saveMeta"
        /\ proc[q].bucket = proc[p].bucket
        /\ Len(proc[q].body) > 1
        /\ data[ObjectPath(proc[q].bucket, proc[q].key)] = FileNode(proc[q].body)

\* C6: after a successful DeleteObject of an object that was put, neither
\* its payload nor its record exists.
C6_DeleteRemovesBoth ==
    \A p \in Procs :
        LET rec == proc[p]
        IN (Done(p, "DeleteObject") /\ rec.err = "" /\ rec.quiet /\ rec.prior.st = "put")
           => /\ ~Exists(data, ObjectPath(rec.bucket, rec.key))
              /\ ~Exists(meta, ObjectMetadataPath(rec.bucket, rec.key))

\* C7: DeleteObject of a key that was never put returns no error (no call
\* having failed for a reason outside the trees), and DeleteObject run twice
\* in a row returns the same result and leaves the same trees both times.
C7_IdempotentDelete ==
    /\ \A p \in Procs :
          (Done(p, "DeleteObject") /\ ~faults /\ proc[p].quiet /\ proc[p].prior.st = "absent")
          => proc[p].err = ""
    /\ \A b \in Buckets, k \in Keys :
          LET once == DeleteNow(data, b, k)
              twice == DeleteNow(once.fs, b, k)
          IN twice.err = once.err /\ twice.fs = once.fs

\* C8: once a key was put and then deleted, both with success, and no put of
\* the key came later, GetObject of the key fails with "object not found"
\* and ListObjects of the bucket has no entry for the key (no call having
\* failed for a reason outside the trees).
C8_GetAfterDelete ==
    \A p \in Procs :
        LET rec == proc[p]
        IN /\ (Done(p, "GetObject") /\ ~faults /\ rec.quiet
               /\ hist[rec.bucket][rec.key] = Deleted)
              => rec.err = "object not found"
           /\ (Done(p, "ListObjects") /\ rec.quiet)
              => \A k \in Keys : hist[rec.bucket][k] = Deleted =>
                    \A i \in 1..Len(rec.out) : rec.out[i].Key # k

\* C9: GetObject fails with "object not found" exactly when no payload file
\* exists for the key, fails with another error when the payload exists and
\* its record is missing or unparseable, and succeeds only when both are
\* there and readable (no call having failed for a reason outside the trees).
C9_GetErrors ==
    \A p \in Procs :
        LET rec == proc[p]
            payload == IsFile(data, ObjectPath(rec.bucket, rec.key))
            m == LoadObjectMetadata(meta, rec.bucket, rec.key)
        IN (Done(p, "GetObject") /\ ~faults /\ rec.quiet)
           => /\ rec.err = "object not found" <=> ~payload
              /\ (payload /\ m.err # "") => rec.err \notin {"", "object not found"}
              /\ rec.err = "" => (payload /\ m.err = "")

\* C10: a bucket's payload directory exists if and only if the bucket has a
\* record, whenever no CreateBucket of that bucket is running (no call
\* having failed for a reason outside the trees).
C10_BucketDirIffRecord ==
    \A b \in Buckets :
        (~faults /\ \A q \in Procs : ~(Running(q) /\ proc[q].op = "CreateBucket" /\ proc[q].bucket = b))
        => (IsDir(data, <<b>>) <=> Exists(meta, BucketMetadataPath(b)))

\* C11: ListBuckets succeeds and returns exactly the buckets whose directory
\* has a record that is present and parses; a directory whose record is
\* missing or unparseable is left out (no call having failed for a reason
\* outside the trees).
C11_ListBucketsValid ==
    \A p \in Procs :
        LET rec == proc[p]
            valid == {b \in Buckets :
                        /\ IsDir(data, <<b>>)
                        /\ Exists(meta, BucketMetadataPath(b))
                        /\ UnmarshalBucket(meta[BucketMetadataPath(b)]).err = ""}
        IN (Done(p, "ListBuckets") /\ ~faults)
           => /\ rec.err = ""
              /\ {rec.out[i].Name : i \in 1..Len(rec.out)} = valid

\* C12: isolation across buckets.  A step of a PutObject or DeleteObject on
\* one bucket leaves the payloads and the object records of every other
\* bucket as they were; and a key on which no put or delete was ever started
\* in a bucket is not found by GetObject of that bucket and has no entry in
\* its ListObjects, whatever was put under that key in other buckets.
InBucket(fs, b) == [q \in {q \in DOMAIN fs : Len(q) >= 1 /\ q[1] = b} |-> fs[q]]
OtherBucketsUntouched ==
    \A p \in Procs, b \in Buckets :
        (/\ proc'[p] # proc[p]
         /\ proc'[p].op \in {"PutObject", "DeleteObject"}
         /\ proc'[p].bucket # b)
        => /\ InBucket(data', b) = InBucket(data, b)
           /\ InBucket(meta', b) = InBucket(meta, b)
NotVisibleAcross ==
    \A p \in Procs :
        LET rec == proc[p]
        IN /\ (Done(p, "GetObject") /\ hist[rec.bucket][rec.key] = Absent)
              => rec.err = "object not found"
           /\ Done(p, "ListObjects")
              => \A i \in 1..Len(rec.out) : hist[rec.bucket][rec.out[i].Key] # Absent
C12_Isolation == [][OtherBucketsUntouched]_vars /\ []NotVisibleAcross

\* C12 witness: GetObject of a key has returned in a bucket that exists and
\* in which the key was never put, while another bucket holds an object put
\* under that key.
C12_Witness ==
    \E p \in Procs, b \in Buckets :
        /\ Done(p, "GetObject") /\ proc[p].bucket # b
        /\ IsDir(data, <<proc[p].bucket>>)
        /\ hist[proc[p].bucket][proc[p].key] = Absent
        /\ hist[b][proc[p].key].st = "put"
        /\ IsFile(data, ObjectPath(b, proc[p].key))

\* C13: listing completeness.  When the calls made so far are one successful
\* PutObject for each of N > 0 distinct keys of a bucket and then a ListObjects
\* of that bucket, the listing succeeds and returns N entries, one for each
\* key, each with the number of bytes put under its key as its size.
PutKeys(b) == {k \in Keys : hist[b][k].st = "put"}
OnlyPutsBefore(b) ==
    PutKeys(b) # {} /\ Cardinality(PutKeys(b)) = MaxCalls - calls - 1
C13_ListingComplete ==
    \A p \in Procs :
        LET rec == proc[p]
            b == rec.bucket
        IN (Done(p, "ListObjects") /\ OnlyPutsBefore(b))
           => /\ rec.err = ""
              /\ Len(rec.out) = Cardinality(PutKeys(b))
              /\ \A k \in PutKeys(b) :
                    \E i \in 1..Len(rec.out) :
                        rec.out[i].Key = k /\ rec.out[i].Size = Len(hist[b][k].body)

\* C13 witness: a listing has returned after two puts, one of them of a key
\* below a directory, and no other call.
C13_Witness ==
    \E p \in Procs :
        /\ Done(p, "ListObjects") /\ OnlyPutsBefore(proc[p].bucket)
        /\ Cardinality(PutKeys(proc[p].bucket)) = 2
        /\ \E k \in PutKeys(proc[p].bucket) : Len(k) > 1

\* C14: corruption tolerance.  ListObjects of a bucket that exists succeeds
\* and returns the record of every key whose payload file is there and
\* whose record parses, and no entry for a key whose record is missing or
\* unparseable.
C14_CorruptionTolerant ==
    \A p \in Procs :
        LET rec == proc[p]
            b == rec.bucket
        IN (Done(p, "ListObjects") /\ IsDir(data, <<b>>))
           => /\ rec.err = ""
              /\ \A k \in Keys :
                    LET m == LoadObjectMetadata(meta, b, k)
                    IN (IsFile(data, ObjectPath(b, k)) /\ m.err = "")
                       <=> \E i \in 1..Len(rec.out) :
                              rec.src[i] = k /\ rec.out[i] = m.val

\* C14 witness: a listing has returned an entry while the payload of
\* another key was there with a record that does not parse.
C14_Witness ==
    \E p \in Procs, k \in Keys :
        /\ Done(p, "ListObjects") /\ proc[p].err = "" /\ Len(proc[p].out) > 0
        /\ IsFile(data, ObjectPath(proc[p].bucket, k))
        /\ Exists(meta, ObjectMetadataPath(proc[p].bucket, k))
        /\ LoadObjectMetadata(meta, proc[p].bucket, k).err # ""

\* C15: a bucket's created timestamp never changes.  The created value a
\* ListBuckets has reported for a bucket is the created value of the
\* bucket's record whenever that record is there and parses afterwards (no
\* call having failed for a reason outside the trees).
C15_CreatedImmutable ==
    \A p \in Procs :
        (Done(p, "ListBuckets") /\ ~faults)
        => \A i \in 1..Len(proc[p].out) :
              LET bucket == proc[p].out[i]
                  metadataPath == BucketMetadataPath(bucket.Name)
              IN (Exists(meta, metadataPath) /\ UnmarshalBucket(meta[metadataPath]).err = "")
                 => UnmarshalBucket(meta[metadataPath]).val.Created = bucket.Created

\* C16: of concurrent puts of one key, the last rename and the last
\* metadata write win.  Whenever a PutObject's Rename succeeds, the payload
\* at rest is the complete payload of that call; whenever a PutObject's
\* metadata write succeeds, the record at rest is the record of that call.
LastRenameWins ==
    \A p \in Procs :
        (/\ proc[p].op = "PutObject" /\ proc[p].pc = "rename"
         /\ proc'[p].pc = "saveMeta")
        => data'[ObjectPath(proc[p].bucket, proc[p].key)] = FileNode(proc[p].body)
LastWriteWins ==
    \A p \in Procs :
        (/\ proc[p].op = "PutObject" /\ proc[p].pc = "writeMeta"
         /\ proc'[p].pc = "done" /\ proc'[p].err = "")
        => meta'[ObjectMetadataPath(proc[p].bucket, proc[p].key)]
              = MarshalObject(PutMetadata(proc[p], proc[p].time))
C16_LastWins == [][LastRenameWins /\ LastWriteWins]_vars

\* A request for an object: /objects/{bucket}/{key}.
Answered(p, method) == http[p].state = "answered" /\ http[p].method = method
ObjectRequest(p) == Len(http[p].path) >= 3 /\ http[p].path[1] = "objects"

\* C17: GET /buckets reaches ListBuckets and is answered 200 when
\* ListBuckets succeeds, 500 only when it fails.
C17_GetBucketsLists ==
    \A p \in Procs :
        (Answered(p, "GET") /\ http[p].path = <<"buckets">>)
        => /\ http[p].handler = "handleListBuckets"
           /\ http[p].status = (IF http[p].err # "" THEN 500 ELSE 200)

\* C18: DELETE /objects/{bucket}/{key} reaches DeleteObject and is answered
\* 200 or 204 when it succeeds, 500 only when it fails, so that the CLI's
\* remove reports success.
C18_DeleteRouted ==
    \A p \in Procs :
        (Answered(p, "DELETE") /\ ObjectRequest(p))
        => /\ http[p].status \in {200, 204, 500}
           /\ http[p].status = 500 <=> http[p].err # ""
           /\ http[p].err = "" => CliRemove(http[p]) = ""

\* C19: GET /objects/{bucket}/{key} is answered 404 exactly when GetObject
\* failed with "object not found", and 500 for every other failure of
\* GetObject (no call having failed for a reason outside the trees).
C19_NotFoundIff404 ==
    \A p \in Procs :
        (Answered(p, "GET") /\ ObjectRequest(p) /\ ~faults)
        => /\ http[p].status = 404 <=> http[p].err = "object not found"
           /\ http[p].err \notin {"", "object not found"} => http[p].status = 500

\* C20: HEAD /objects/{bucket}/{key} on an object whose payload and record
\* are there is answered 200 with the headers taken from the record, and
\* the CLI's stat succeeds.
C20_HeadAnswers ==
    \A p \in Procs :
        LET bucketName == http[p].path[2]
            objectKey == SubSeq(http[p].path, 3, Len(http[p].path))
            m == LoadObjectMetadata(meta, bucketName, objectKey)
        IN (/\ Answered(p, "HEAD") /\ ObjectRequest(p)
            /\ IsFile(data, ObjectPath(bucketName, objectKey)) /\ m.err = "")
           => /\ http[p].status = 200
              /\ http[p].headers = <<m.val>>
              /\ CliStat(http[p]) = ""

\* C21: a PutObject whose copy into the temporary file or whose Rename
\* fails returns an error, removes its temporary file and leaves the
\* payload and the record of its key as they were; and once a PutObject
\* has returned, with or without an error, no temporary file is left.
FailedPutCleansUp ==
    \A p \in Procs :
        LET rec == proc[p]
            objectPath == ObjectPath(rec.bucket, rec.key)
        IN (/\ rec.op = "PutObject" /\ rec.pc \in {"copy", "rename"}
            /\ proc'[p].pc = "done")
           => /\ proc'[p].err # ""
              /\ ~Exists(data', rec.tmp)
              /\ Exists(data', objectPath) <=> Exists(data, objectPath)
              /\ Exists(data, objectPath) => data'[objectPath] = data[objectPath]
              /\ meta' = meta
NoTempLeft ==
    \A p \in Procs :
        Done(p, "PutObject") => \A q \in DOMAIN data : q = <<>> \/ Base(q) \notin TempNames
C21_FailedPutCleansUp == [][FailedPutCleansUp]_vars /\ []NoTempLeft

\* C21 witness: a put of a key that held an object has returned with the
\* error of a failed copy or Rename, and the object is as it was.
C21_Witness ==
    \E p \in Procs :
        /\ Done(p, "PutObject") /\ proc[p].prior.st = "put"
        /\ proc[p].err \in {"failed to write object data", "failed to finalize object"}
        /\ proc[p].body # proc[p].prior.body
        /\ data[ObjectPath(proc[p].bucket, proc[p].key)] = FileNode(proc[p].prior.body)

\* C22: within one PutObject the record is written only after the Rename
\* of the payload: whenever the record of a key changes, the payload of
\* that key already is the body of the put that writes it, so no state of
\* a put running alone has the new record with the old or no payload.
RecordAfterRename ==
    \A b \in Buckets, k \in Keys :
        LET metadataPath == ObjectMetadataPath(b, k)
        IN (/\ Exists(meta', metadataPath)
            /\ ~Exists(meta, metadataPath) \/ meta'[metadataPath] # meta[metadataPath])
           => \E p \in Procs :
                /\ proc[p].op = "PutObject" /\ proc[p].bucket = b /\ proc[p].key = k
                /\ proc[p].pc \in {"saveMeta", "writeMeta"}
                /\ Exists(data, ObjectPath(b, k))
                /\ data[ObjectPath(b, k)] = FileNode(proc[p].body)
                /\ data' = data
NewRecordHasNewPayload ==
    \A p \in Procs :
        (/\ Done(p, "PutObject") /\ proc[p].err = ""
         /\ meta[ObjectMetadataPath(proc[p].bucket, proc[p].key)] = MarshalObject(proc[p].out[1]))
        => data[ObjectPath(proc[p].bucket, proc[p].key)] = FileNode(proc[p].body)
C22_RecordAfterRename == [][RecordAfterRename]_vars /\ []NewRecordHasNewPayload

\* C22 witness: a put over an existing object stopped between the Rename
\* and the write of the record: the new payload with the record emptied.
C22_Witness ==
    \E p \in Procs :
        /\ proc[p].op = "PutObject" /\ proc[p].pc = "writeMeta"
        /\ proc[p].prior.st = "put" /\ proc[p].prior.body # proc[p].body
        /\ data[ObjectPath(proc[p].bucket, proc[p].key)] = FileNode(proc[p].body)
        /\ meta[ObjectMetadataPath(proc[p].bucket, proc[p].key)] = Truncated

\* C23: DeleteObject(bucket, k) changes nothing but object k: the payload
\* and the record of every other key of the bucket, the key k + ".json"
\* included, are after each of its steps what they were before.
C23_DeleteTouchesOnlyItsKey ==
    [][\A p \in Procs :
          (proc[p].op = "DeleteObject" /\ proc'[p] # proc[p])
          => \A k \in Keys \ {proc[p].key} :
                LET objectPath == ObjectPath(proc[p].bucket, k)
                    metadataPath == ObjectMetadataPath(proc[p].bucket, k)
                IN /\ Exists(data', objectPath) <=> Exists(data, objectPath)
                   /\ Exists(data, objectPath) => data'[objectPath] = data[objectPath]
                   /\ Exists(meta', metadataPath) <=> Exists(meta, metadataPath)
                   /\ Exists(meta, metadataPath) => meta'[metadataPath] = meta[metadataPath]]_vars

\* C24: concurrent PutObject calls each write to a temporary file of their
\* own, holding what that call has copied of its body and nothing else,
\* and a Rename publishes at the final path exactly the whole body of the
\* call that renames: no payload is a mixture of two calls' bytes.
Copying(p) == proc[p].op = "PutObject" /\ proc[p].pc \in {"copy", "rename"}
OwnTemp ==
    \A p \in Procs :
        Copying(p)
        => /\ IsFile(data, proc[p].tmp)
           /\ data[proc[p].tmp].bytes = SubSeq(proc[p].body, 1, proc[p].size)
           /\ \A q \in Procs \ {p} : Copying(q) => proc[q].tmp # proc[p].tmp
PublishedWhole ==
    \A b \in Buckets, k \in Keys :
        LET objectPath == ObjectPath(b, k)
        IN (/\ IsFile(data', objectPath)
            /\ ~Exists(data, objectPath) \/ data'[objectPath] # data[objectPath])
           => \E p \in Procs :
                /\ proc[p].op = "PutObject" /\ proc[p].pc = "rename"
                /\ proc[p].bucket = b /\ proc[p].key = k
                /\ data[proc[p].tmp] = FileNode(proc[p].body)
                /\ data'[objectPath] = data[proc[p].tmp]
C24_OwnTempFile == []OwnTemp /\ [][PublishedWhole]_vars

\* C24 witness: two puts of the same key with different bodies are both
\* past their copy, each with its whole body in its own temporary file.
C24_Witness ==
    \E p, q \in Procs :
        /\ p # q
        /\ proc[p].op = "PutObject" /\ proc[p].pc = "rename"
        /\ proc[q].op = "PutObject" /\ proc[q].pc = "rename"
        /\ proc[p].key = proc[q].key /\ proc[p].body # proc[q].body
        /\ data[proc[p].tmp] = FileNode(proc[p].body)
        /\ data[proc[q].tmp] = FileNode(proc[q].body)

\* C25: an object that exists before a re-put of its key is never missing
\* from a ListObjects result, and never fails a GetObject, that returns
\* while that re-put is running (the re-put being the only writer of the
\* key, the listing having read the payload's name in the bucket directory
\* and returning a result, and no call having failed for a reason outside
\* the trees).
RePut(q) ==
    /\ proc[q].op = "PutObject" /\ Running(q)
    /\ proc[q].prior.st = "put" /\ proc[q].quiet
C25_ReadableDuringRePut ==
    [][\A p, q \in Procs :
          (/\ RePut(q) /\ ~faults'
           /\ proc[p].bucket = proc[q].bucket
           /\ proc[p].pc # "done" /\ proc'[p].pc = "done")
          => /\ (proc[p].op = "GetObject" /\ proc[p].key = proc[q].key)
                   => proc'[p].err = ""
             /\ (/\ proc[p].op = "ListObjects"
                 /\ \E i \in 1..Len(proc[p].names) : proc[p].names[i] = Head(proc[q].key)
                 /\ proc'[p].err = "")
                   => \E i \in 1..Len(proc'[p].out) :
                         proc'[p].out[i].Key = proc[q].key]_vars

\* C26: nested keys cannot shadow each other.  While the payload of k is
\* there, a PutObject of a key k/x fails on arrival and changes nothing;
\* while the payload of k/x is there, the Rename of a PutObject of k fails,
\* the call removes its temporary file, and nothing else changes.
Nested(k, kx) == k \in ProperPrefixes(kx)
PutUnderObjectFails ==
    \A p \in Procs :
        (/\ proc[p].op = "idle" /\ proc'[p].op = "PutObject"
         /\ \E k \in Keys : /\ Nested(k, proc'[p].key)
                             /\ IsFile(data, ObjectPath(proc'[p].bucket, k)))
        => /\ proc'[p].pc = "done" /\ proc'[p].err # ""
           /\ data' = data /\ meta' = meta
PutOverObjectsFails ==
    \A p \in Procs :
        (/\ proc[p].op = "PutObject" /\ proc[p].pc = "rename" /\ proc'[p] # proc[p]
         /\ \E kx \in Keys : /\ Nested(proc[p].key, kx)
                              /\ IsFile(data, ObjectPath(proc[p].bucket, kx)))
        => /\ proc'[p].pc = "done" /\ proc'[p].err # ""
           /\ data' = Without(data, proc[p].tmp)
           /\ meta' = meta
C26_NoShadowing == [][PutUnderObjectFails /\ PutOverObjectsFails]_vars

\* C26 witness: with the object a/x in place, a put of a has returned an
\* error, no temporary file is left and a/x reads as before.
C26_Witness ==
    \E p \in Procs, b \in Buckets :
        /\ Done(p, "PutObject") /\ proc[p].bucket = b /\ proc[p].key = <<"a">>
        /\ proc[p].err = "failed to finalize object"
        /\ hist[b][<<"a", "x">>].st = "put"
        /\ GetNow(data, meta, b, <<"a", "x">>).err = ""
        /\ GetNow(data, meta, b, <<"a", "x">>).file = FileNode(hist[b][<<"a", "x">>].body)
        /\ \A q \in DOMAIN data : q = <<>> \/ Base(q) \notin TempNames

\* C27: ListObjects of a bucket whose payload directory is not there
\* returns an error, not an empty list, and creates nothing in either
\* tree; the handler answers the request with status 500.
ListMissingFails ==
    \A p \in Procs :
        (/\ proc[p].op = "idle" /\ proc'[p].op = "ListObjects"
         /\ ~Exists(data, <<proc'[p].bucket>>))
        => /\ proc'[p].pc = "done" /\ proc'[p].err # ""
           /\ proc'[p].out = <<>>
           /\ data' = data /\ meta' = meta
MissingAnswers500 ==
    \A p \in Procs :
        (/\ Answered(p, "GET") /\ http[p].handler = "handleListObjects"
         /\ ~Exists(data, <<http[p].path[2]>>))
        => http[p].status = 500 /\ http[p].err # "" /\ http[p].body = NoRequest.body
C27_ListMissingBucketFails == [][ListMissingFails]_vars /\ []MissingAnswers500

\* C27 witness: GET /objects/photos has been answered with status 500
\* while neither tree holds anything of the bucket photos.
C27_Witness ==
    \E p \in Procs :
        /\ Answered(p, "GET") /\ http[p].path = <<"objects", "photos">>
        /\ http[p].status = 500
        /\ ~Exists(data, <<"photos">>)
        /\ ~Exists(meta, BucketMetadataPath("photos"))

====
